---- MODULE Spec2Model ----
(***************************************************************************)
(* The automaton store of the 1D cellular automata explorer (zustand      *)
(* store useStore): the current Generation `cells`, the history window    *)
(* `previousGenerations`, the rule number and rule table, and the         *)
(* viewport metrics derived from the window geometry; and the two         *)
(* renderers that draw a snapshot of the store: Canvas2DRenderer and      *)
(* WebGLComputeRenderer with its two ping-pong textures; the renderer     *)
(* factory with its cached capability probe; and the Canvas component     *)
(* that holds one renderer and runs the animation loop.                   *)
(*                                                                         *)
(* JavaScript arrays are modelled as sequences; index i of an array is    *)
(* element i+1 of the sequence (At, SetIndex).                            *)
(***************************************************************************)
EXTENDS Integers, Sequences, FiniteSets, TLC

VARIABLES
    cells,                  \* boolean[]   current Generation
    previousGenerations,    \* boolean[][] history window, oldest first
    rule,                   \* rule number
    ruleToggles,            \* boolean[]   rule table
    generation,             \* generation counter
    lastInitPattern,        \* last pattern given to initializePattern
    cellSize,
    cellMargin,
    availableWidth,
    maxCells,
    renderWidth,
    renderMargin,
    maxVisibleGenerations,
    innerWidth,             \* window.innerWidth
    innerHeight,            \* window.innerHeight
    gl,                     \* WebGLComputeRenderer: a context is held
    displayProgram,         \* the display program is held
    computeProgram,         \* the compute program is held
    quadBuffer,             \* the vertex buffer is held
    textures,               \* WebGLTexture[]: width, height and texels of each
    framebuffers,           \* WebGLFramebuffer[]: index of the attached texture
    currentTexture,
    textureWidth,
    textureHeight,
    rendererGeneration,     \* this.generation of the renderer
    rendererRule,           \* this.rule of the renderer
    boundTexture,           \* index of the texture bound last, -1 for none
    boundFramebuffer,       \* index of the framebuffer bound last, -1 for the screen
    liveObjects,            \* the GL objects created and not deleted
    c2dCanvas,              \* Canvas2DRenderer: a canvas is held
    c2dCtx,                 \* a 2D context is held
    c2dOptions,             \* the viewport options held, "null" for none
    surface,                \* what the 2D canvas shows: background and squares
    activeRenderer,         \* store: 'webgl' or 'canvas2d'
    webGLSupportCache,      \* RendererFactory: "null", TRUE or FALSE
    probeCount,             \* number of times the capability probe ran
    rendererRef,            \* Canvas: kind of rendererRef.current, "null" for none
    effectRenderer,         \* activeRenderer the renderer effect ran with last
    built,                  \* the backends the last createRenderer constructed
    isPlaying,
    speed,
    animating,              \* a frame callback of the animation effect is pending
    lastTime,               \* locals of the animation effect
    accumulatedTime,
    firstFrameTime,         \* currentTime of the first frame of the loop, 0 for none
    stepsTaken,             \* step() calls made by the loop
    op,                     \* the store action or renderer method that ran last
    arg                     \* the argument it was called with

simVars  == <<cells, previousGenerations, rule, ruleToggles, generation,
              lastInitPattern>>
viewVars == <<cellSize, cellMargin, availableWidth, maxCells, renderWidth,
              renderMargin, maxVisibleGenerations>>
winVars  == <<innerWidth, innerHeight>>
gpuVars  == <<gl, displayProgram, computeProgram, quadBuffer, textures,
              framebuffers, currentTexture, textureWidth, textureHeight,
              rendererGeneration, rendererRule, boundTexture, boundFramebuffer,
              liveObjects>>
c2dVars  == <<c2dCanvas, c2dCtx, c2dOptions, surface>>
appVars  == <<activeRenderer, webGLSupportCache, probeCount, rendererRef,
              effectRenderer, built>>
animVars == <<isPlaying, speed, animating, lastTime, accumulatedTime,
              firstFrameTime, stepsTaken>>
uiVars   == <<c2dVars, appVars, animVars>>
vars     == <<simVars, viewVars, winVars, gpuVars, uiVars, op, arg>>

---------------------------------------------------------------------------
(* Program constants *)

SIDEBAR_WIDTH == 300
DEFAULT_CELL_SIZE == 2
DEFAULT_RULE == 110
DEFAULT_CELL_MARGIN == 0

(* Bounds of the model *)

MaxAvail == 2        \* window widths are SIDEBAR_WIDTH .. SIDEBAR_WIDTH + MaxAvail
MaxHeight == 2       \* window heights are 0 .. MaxHeight
MaxCellSize == 2     \* the cell size slider gives 1 .. MaxCellSize
MaxCellMargin == 1   \* cell margins are 0 .. MaxCellMargin
MaxGeneration == 2   \* step/incrementGeneration run while generation < MaxGeneration
MaxRuleCells == 3    \* SpecRule: windows giving 0 .. MaxRuleCells cells
MaxDepth == 2        \* SpecAppend: windows giving a history depth of 0 .. MaxDepth
MaxTableCells == 1   \* SpecTable: windows giving 1 .. MaxTableCells cells
MaxGpuAvail == 3     \* SpecGpu: the window width is SIDEBAR_WIDTH + MaxGpuAvail
MaxGpuHeight == 2    \* SpecGpu: window heights 1 .. MaxGpuHeight
MaxTime == 6          \* largest frame time stamp, in milliseconds

Patterns == {"single", "random", "filled", "empty", "alternating"}

---------------------------------------------------------------------------
(* JavaScript array helpers *)

\* arr[i] for an index inside the array
At(arr, i) == arr[i + 1]

\* new Array(n).fill(v)
Filled(n, v) == [k \in 1..n |-> v]

\* arr[i] = v; writing at index arr.length grows the array by one
SetIndex(arr, i, v) ==
    IF i < Len(arr) THEN [arr EXCEPT ![i + 1] = v]
    ELSE Append(arr, v)

\* arr.shift(): drops index 0; no effect on an empty array
Shift(arr) == IF Len(arr) = 0 THEN arr ELSE Tail(arr)

\* all boolean arrays of length n
BoolArrays(n) == [1..n -> BOOLEAN]

\* a shift that is one too far: (ruleNumber >> (i + 1)) & 1
BitShiftedTooFar(ruleNumber, i) == (ruleNumber \div (2 ^ (i + 1))) % 2

\* (ruleNumber >> i) & 1
Bit(ruleNumber, i) == (ruleNumber \div (2 ^ i)) % 2

---------------------------------------------------------------------------
(* calculateCanvasMetrics; window.innerHeight is passed as `height` *)

\* the depth derived from the cell size alone, the margin left out
calculateCanvasMetricsNoMargin(windowWidth, size, margin, height) ==
    LET aw == windowWidth - SIDEBAR_WIDTH
        mc == aw \div (size + margin)
        rw == mc * (size + margin)
    IN  [availableWidth        |-> aw,
         maxCells              |-> mc,
         renderWidth           |-> rw,
         renderMargin          |-> (aw - rw) \div 2,
         maxVisibleGenerations |-> height \div size]

calculateCanvasMetrics(windowWidth, size, margin, height) ==
    LET aw == windowWidth - SIDEBAR_WIDTH
        mc == aw \div (size + margin)
        rw == mc * (size + margin)
    IN  [availableWidth        |-> aw,
         maxCells              |-> mc,
         renderWidth           |-> rw,
         renderMargin          |-> (aw - rw) \div 2,
         maxVisibleGenerations |-> height \div (size + margin)]

---------------------------------------------------------------------------
(* step(): the rule engine *)

\* a left neighbour read without the wrap: cells[i - 1] is undefined at i = 0
LeftOfNoWrap(c, i) == IF i = 0 THEN FALSE ELSE At(c, i - 1)

LeftOf(c, i) == At(c, (i - 1 + Len(c)) % Len(c))

\* a right neighbour read without the wrap: cells[i + 1] is undefined at the end
RightOfNoWrap(c, i) == IF i + 1 < Len(c) THEN At(c, i + 1) ELSE FALSE

RightOf(c, i) == At(c, (i + 1) % Len(c))

\* the neighbourhood weights in the opposite order
PatternIdxReversed(left, center, right) ==
    (IF left THEN 1 ELSE 0) + (IF center THEN 2 ELSE 0) + (IF right THEN 4 ELSE 0)

PatternIdx(left, center, right) ==
    (IF left THEN 4 ELSE 0) + (IF center THEN 2 ELSE 0) + (IF right THEN 1 ELSE 0)

\* the table read without the 7 - idx inversion
NextCellDirect(c, toggles, i) ==
    At(toggles, PatternIdx(LeftOf(c, i), At(c, i), RightOf(c, i)))

NextCell(c, toggles, i) ==
    At(toggles, 7 - PatternIdx(LeftOf(c, i), At(c, i), RightOf(c, i)))

RECURSIVE StepLoop(_, _, _, _)
StepLoop(c, toggles, i, nextCells) ==
    IF i < Len(c)
    THEN StepLoop(c, toggles, i + 1, SetIndex(nextCells, i, NextCell(c, toggles, i)))
    ELSE nextCells

NextCells(c, toggles) == StepLoop(c, toggles, 0, Filled(Len(c), FALSE))

\* a step() that appends and never evicts
StepHistoryUnbounded(prev, c, maxVisible) == Append(prev, c)

\* the updater passed to set() in step(): shift when full, then push
StepHistory(prev, c, maxVisible) ==
    LET kept == IF Len(prev) >= maxVisible THEN Shift(prev) ELSE prev
    IN  Append(kept, c)

\* incrementGeneration(): push, then shift when over the limit
IncrementHistory(prev, c, maxVisible) ==
    LET pushed == Append(prev, c)
    IN  IF Len(pushed) > maxVisible THEN Shift(pushed) ELSE pushed

---------------------------------------------------------------------------
(* setPresetRule: the rule table of a rule number *)

RECURSIVE PresetLoop(_, _, _)
PresetLoop(ruleNumber, i, toggles) ==
    IF i < 8
    THEN PresetLoop(ruleNumber, i + 1,
                    SetIndex(toggles, 7 - i, Bit(ruleNumber, i) = 1))
    ELSE toggles

\* the table written without the inversion: toggles[i] = bit i
PresetTogglesDirect(ruleNumber) ==
    [k \in 1..8 |-> Bit(ruleNumber, k - 1) = 1]

PresetToggles(ruleNumber) == PresetLoop(ruleNumber, 0, Filled(8, FALSE))

\* the initial rule table of the store: toggles[i] = Boolean(DEFAULT_RULE & (1 << i))
RECURSIVE InitialLoop(_, _)
InitialLoop(i, toggles) ==
    IF i < 8
    THEN InitialLoop(i + 1, SetIndex(toggles, i, Bit(DEFAULT_RULE, i) # 0))
    ELSE toggles

InitialToggles == InitialLoop(0, Filled(8, FALSE))

---------------------------------------------------------------------------
(* initializePattern: `randomCells` stands for the Math.random() draws *)

RECURSIVE AlternatingLoop(_, _, _)
AlternatingLoop(n, i, newCells) ==
    IF i < n
    THEN AlternatingLoop(n, i + 1, SetIndex(newCells, i, i % 2 = 0))
    ELSE newCells

PatternCells(pattern, n, randomCells) ==
    CASE pattern = "single"      -> SetIndex(Filled(n, FALSE), n \div 2, TRUE)
      [] pattern = "random"      -> randomCells
      [] pattern = "filled"      -> Filled(n, TRUE)
      [] pattern = "alternating" -> AlternatingLoop(n, 0, Filled(n, FALSE))
      [] OTHER                   -> Filled(n, FALSE)

---------------------------------------------------------------------------
(* setCellSize / setCellMargin / updateCanvasSize: recentre the cells *)

RECURSIVE RecentreLoop(_, _, _, _, _)
RecentreLoop(c, n, offset, i, newCells) ==
    IF i < Len(c)
    THEN RecentreLoop(c, n, offset, i + 1,
                      IF i + offset >= 0 /\ i + offset < n
                      THEN SetIndex(newCells, i + offset, At(c, i))
                      ELSE newCells)
    ELSE newCells

\* the old cells copied from index 0, without the centring offset
RecentreLeftAligned(c, n) ==
    RecentreLoop(c, n, 0, 0, Filled(n, FALSE))

Recentre(c, n) ==
    RecentreLoop(c, n, (n - Len(c)) \div 2, 0, Filled(n, FALSE))

---------------------------------------------------------------------------
(* WebGLComputeRenderer *)

\* the field initialisers of a new WebGLComputeRenderer
InitRenderer ==
    /\ gl = FALSE
    /\ displayProgram = FALSE
    /\ computeProgram = FALSE
    /\ quadBuffer = FALSE
    /\ textures = <<>>
    /\ framebuffers = <<>>
    /\ currentTexture = 0
    /\ textureWidth = 1
    /\ textureHeight = 1
    /\ rendererGeneration = 0
    /\ rendererRule = 0
    /\ boundTexture = -1
    /\ boundFramebuffer = -1
    /\ liveObjects = {}

\* gl.texImage2D(..., w, h, ..., null): a texture of w x h zero texels
EmptyTexture(w, h) == [w |-> w, h |-> h, data |-> Filled(w * h, 0)]

\* texelFetch(tex, ivec2(x, y), 0).r as a byte; 0 outside the texture
Texel(tex, x, y) ==
    IF x >= 0 /\ x < tex.w /\ y >= 0 /\ y < tex.h
    THEN tex.data[y * tex.w + x + 1]
    ELSE 0

RECURSIVE DoublingLoop(_, _)
DoublingLoop(p, n) == IF p >= n THEN p ELSE DoublingLoop(2 * p, n)

\* Math.pow(2, Math.ceil(Math.log2(n))); log2(0) is -Infinity and gives 0
PowerOfTwoCeil(n) == IF n = 0 THEN 0 ELSE DoublingLoop(1, n)

\* arr.slice(-k): the last k entries, all of arr when k is 0 (slice(-0)) or
\* k exceeds the length
SliceLast(arr, k) ==
    IF k = 0 \/ k >= Len(arr) THEN arr
    ELSE SubSeq(arr, Len(arr) - k + 1, Len(arr))

\* the Uint8Array of updateTexture: zero-filled, then data[y * texWidth + x] =
\* 255 for every live cell x of visible generation y; a write past the end of
\* the typed array is dropped
TextureData(visibleGenerations, texWidth, texHeight) ==
    [idx \in 1..(texWidth * texHeight) |->
        IF \E y \in 0..(Len(visibleGenerations) - 1) :
              \E x \in 0..(Len(visibleGenerations[y + 1]) - 1) :
                  /\ At(visibleGenerations[y + 1], x)
                  /\ y * texWidth + x = idx - 1
        THEN 255 ELSE 0]

\* the textures after updateTexture(state): both are re-created empty when the
\* size changed, then textures[0] receives the whole data array
UpdatedTextures(texs, oldWidth, oldHeight, c, prev, maxVisible) ==
    LET texWidth  == PowerOfTwoCeil(Len(c))
        texHeight == PowerOfTwoCeil(maxVisible)
        visibleGenerations == SliceLast(Append(prev, c), maxVisible)
        other == IF texWidth # oldWidth \/ texHeight # oldHeight
                 THEN EmptyTexture(texWidth, texHeight)
                 ELSE texs[2]
    IN  << [w |-> texWidth, h |-> texHeight,
            data |-> TextureData(visibleGenerations, texWidth, texHeight)],
           other >>

\* the compute shader at fragment (x, y) reading the texture src: every row
\* above row 0 copies row y - 1; row 0 applies the rule to row 0 of src, the
\* neighbours wrapped over the texture width
ComputeFragment(src, ruleNumber, x, y) ==
    IF y > 0 THEN Texel(src, x, y - 1)
    ELSE LET leftIndex  == (x - 1 + src.w) % src.w
             rightIndex == (x + 1) % src.w
             pattern == PatternIdx(Texel(src, leftIndex, 0) > 127,
                                   Texel(src, x, 0) > 127,
                                   Texel(src, rightIndex, 0) > 127)
         IN  255 * Bit(ruleNumber, pattern)

\* the write texture after gl.clear and the draw over the viewport vw x vh
ComputePass(src, dst, ruleNumber, vw, vh) ==
    [dst EXCEPT !.data =
        [idx \in 1..(dst.w * dst.h) |->
            LET x == (idx - 1) % dst.w
                y == (idx - 1) \div dst.w
            IN  IF x < vw /\ y < vh
                THEN ComputeFragment(src, ruleNumber, x, y)
                ELSE 0]]

\* a compute pass that renders into the texture it reads
nextTextureSame(current) == current

\* const nextTexture = 1 - this.currentTexture
nextTexture(current) == 1 - current

\* the (row, cell index) pairs the display shader shows as live: texels of
\* tex with r > 0.5, inside the texture width and below u_maxGenerations rows
DisplayLive(tex, maxVisible) ==
    {rc \in (0..(maxVisible - 1)) \X (0..(tex.w - 1)) :
        Texel(tex, rc[2], rc[1]) > 127}

---------------------------------------------------------------------------
(* Canvas2DRenderer *)

\* the (row, cell index) pairs for which render() fills a square: the rows of
\* previousGenerations.slice(-maxVisibleGenerations), then the current
\* Generation on the row after them
CanvasLive(c, prev, maxVisible) ==
    LET visibleGenerations == SliceLast(prev, maxVisible)
        RowLive(row, k) == {<<k, x>> : x \in {i \in 0..(Len(row) - 1) : At(row, i)}}
    IN  UNION {RowLive(visibleGenerations[k + 1], k) :
                   k \in 0..(Len(visibleGenerations) - 1)}
        \cup RowLive(c, Len(visibleGenerations))

\* the canvas as a new element shows it: not cleared, no square
BlankSurface == [background |-> FALSE, squares |-> {}]

\* a fillCell that fills from the whole pixel
fillCellAligned(x, y, side) == [x2 |-> 2 * x, y2 |-> 2 * y, side |-> side]

\* fillCell(x, y): fillRect(Math.floor(x) + 0.5, Math.floor(y) + 0.5,
\* cellSize - 1, cellSize - 1). A rectangle is kept with its coordinates
\* doubled (x2, y2), which makes the half pixel an integer.
fillCell(x, y, side) == [x2 |-> 2 * x + 1, y2 |-> 2 * y + 1, side |-> side]

\* the fillRect calls of render() after the clear, with the options held
Squares(c, prev, options) ==
    {fillCell(options.renderMargin
                  + rc[2] * (options.cellSize + options.cellMargin),
              rc[1] * (options.cellSize + options.cellMargin),
              options.cellSize - 1) :
         rc \in CanvasLive(c, prev, options.maxVisibleGenerations)}

\* the field initialisers of a new Canvas2DRenderer, and its canvas
InitCanvas2D ==
    /\ c2dCanvas = FALSE
    /\ c2dCtx = FALSE
    /\ c2dOptions = <<>>
    /\ surface = BlankSurface

---------------------------------------------------------------------------
(* RendererFactory *)

\* a support check that probes on every call
isWebGL2SupportedUncached(cache, capability) ==
    [result |-> capability,
     cache |-> IF capability THEN "true" ELSE "false",
     probes |-> 1]

\* isWebGL2Supported(): the cached answer when there is one, else the answer
\* of canvas.getContext('webgl2') (`capability`, FALSE when it throws), which
\* is stored in webGLSupportCache
isWebGL2Supported(cache, capability) ==
    IF cache # "null"
    THEN [result |-> (cache = "true"), cache |-> cache, probes |-> 0]
    ELSE [result |-> capability,
          cache |-> IF capability THEN "true" ELSE "false",
          probes |-> 1]

\* a createRenderer that does not look at the preferred type
createRendererAnyType(preferredType, canvas, cache, capability, gpuOutcome) ==
    LET supported == isWebGL2Supported(cache, capability)
        gpuFails == canvas /\ gpuOutcome # "ok"
    IN  [kind |-> IF supported.result /\ ~gpuFails THEN "webgl" ELSE "canvas2d",
         built |-> IF supported.result
                   THEN (IF gpuFails THEN <<"webgl", "canvas2d">>
                         ELSE <<"webgl">>)
                   ELSE <<"canvas2d">>,
         initialized |-> canvas,
         cache |-> supported.cache,
         probes |-> supported.probes]

\* createRenderer(preferredType, canvas): preferredType is 'webgl',
\* 'canvas2d' or "none" when it is not given, `canvas` tells whether a canvas
\* is given, gpuOutcome is how initialize(canvas) of the GPU renderer ends
\* when it is called. The result names the kind of the renderer returned and
\* the renderers constructed on the way.
createRenderer(preferredType, canvas, cache, capability, gpuOutcome) ==
    LET wanted == preferredType = "webgl" \/ preferredType = "none"
        supported == IF wanted THEN isWebGL2Supported(cache, capability)
                     ELSE [result |-> FALSE, cache |-> cache, probes |-> 0]
        gpuFails == canvas /\ gpuOutcome # "ok"
    IN  [kind |-> IF supported.result /\ ~gpuFails THEN "webgl" ELSE "canvas2d",
         built |-> IF supported.result
                   THEN (IF gpuFails THEN <<"webgl", "canvas2d">>
                         ELSE <<"webgl">>)
                   ELSE <<"canvas2d">>,
         initialized |-> canvas,
         cache |-> supported.cache,
         probes |-> supported.probes]

DEFAULT_SPEED == 60

\* the store fields read by the Canvas, the module state of the factory after
\* the hasWebGLSupport() call of create(), and the Canvas before it is mounted
InitUi(capability) ==
    LET supported == isWebGL2Supported("null", capability)
    IN  /\ InitCanvas2D
        /\ activeRenderer = IF supported.result THEN "webgl" ELSE "canvas2d"
        /\ webGLSupportCache = supported.cache
        /\ probeCount = supported.probes
        /\ rendererRef = "null"
        /\ effectRenderer = "none"
        /\ built = <<>>
        /\ isPlaying = FALSE
        /\ speed = DEFAULT_SPEED
        /\ animating = FALSE
        /\ lastTime = 0
        /\ accumulatedTime = 0
        /\ firstFrameTime = 0
        /\ stepsTaken = 0

---------------------------------------------------------------------------
(* Initial state: the object returned by create() *)

InitStoreProbed(w, h, capability) ==
    LET initialMetrics ==
            calculateCanvasMetrics(w, DEFAULT_CELL_SIZE, DEFAULT_CELL_MARGIN, h)
    IN  /\ innerWidth = w
        /\ innerHeight = h
        /\ cells = SetIndex(Filled(initialMetrics.maxCells, FALSE),
                            initialMetrics.maxCells \div 2, TRUE)
        /\ previousGenerations = <<>>
        /\ rule = DEFAULT_RULE
        /\ ruleToggles = InitialToggles
        /\ generation = 0
        /\ lastInitPattern = "single"
        /\ cellSize = DEFAULT_CELL_SIZE
        /\ cellMargin = DEFAULT_CELL_MARGIN
        /\ availableWidth = initialMetrics.availableWidth
        /\ maxCells = initialMetrics.maxCells
        /\ renderWidth = initialMetrics.renderWidth
        /\ renderMargin = initialMetrics.renderMargin
        /\ maxVisibleGenerations = initialMetrics.maxVisibleGenerations
        /\ InitRenderer
        /\ InitUi(capability)
        /\ op = "create"
        /\ arg = "none"

\* the store in a browser that has WebGL2
InitStore(w, h) == InitStoreProbed(w, h, TRUE)

Widths == SIDEBAR_WIDTH .. (SIDEBAR_WIDTH + MaxAvail)
Heights == 0 .. MaxHeight

Init == \E w \in Widths, h \in Heights : InitStore(w, h)

---------------------------------------------------------------------------
(* Store actions *)

\* a step() that archives the new Generation instead of the one it replaces
stepArchivesNext ==
    /\ generation < MaxGeneration
    /\ cells' = NextCells(cells, ruleToggles)
    /\ previousGenerations' =
           StepHistory(previousGenerations, NextCells(cells, ruleToggles),
                       maxVisibleGenerations)
    /\ generation' = generation + 1
    /\ op' = "step"
    /\ arg' = "none"
    /\ UNCHANGED <<rule, ruleToggles, lastInitPattern, viewVars, winVars>>
    /\ UNCHANGED <<gpuVars, uiVars>>

step ==
    /\ generation < MaxGeneration
    /\ cells' = NextCells(cells, ruleToggles)
    /\ previousGenerations' =
           StepHistory(previousGenerations, cells, maxVisibleGenerations)
    /\ generation' = generation + 1
    /\ op' = "step"
    /\ arg' = "none"
    /\ UNCHANGED <<rule, ruleToggles, lastInitPattern, viewVars, winVars>>
    /\ UNCHANGED <<gpuVars, uiVars>>

incrementGeneration ==
    /\ generation < MaxGeneration
    /\ previousGenerations' =
           IncrementHistory(previousGenerations, cells, maxVisibleGenerations)
    /\ generation' = generation + 1
    /\ op' = "incrementGeneration"
    /\ arg' = "none"
    /\ UNCHANGED <<cells, rule, ruleToggles, lastInitPattern, viewVars, winVars>>
    /\ UNCHANGED <<gpuVars, uiVars>>

\* an initializePattern that leaves the history window as it was
initializePatternKeepsHistory(pattern, randomCells) ==
    /\ cells' = PatternCells(pattern, maxCells, randomCells)
    /\ lastInitPattern' = pattern
    /\ generation' = 0
    /\ op' = "initializePattern"
    /\ arg' = pattern
    /\ UNCHANGED <<previousGenerations, rule, ruleToggles, viewVars, winVars>>
    /\ UNCHANGED <<gpuVars, uiVars>>

initializePattern(pattern, randomCells) ==
    /\ cells' = PatternCells(pattern, maxCells, randomCells)
    /\ lastInitPattern' = pattern
    /\ generation' = 0
    /\ previousGenerations' = <<>>
    /\ op' = "initializePattern"
    /\ arg' = pattern
    /\ UNCHANGED <<rule, ruleToggles, viewVars, winVars>>
    /\ UNCHANGED <<gpuVars, uiVars>>

resetGeneration(randomCells) ==
    /\ cells' = PatternCells(lastInitPattern, maxCells, randomCells)
    /\ generation' = 0
    /\ previousGenerations' = <<>>
    /\ op' = "resetGeneration"
    /\ arg' = "none"
    /\ UNCHANGED <<lastInitPattern, rule, ruleToggles, viewVars, winVars>>
    /\ UNCHANGED <<gpuVars, uiVars>>

setPresetRule(ruleNumber) ==
    /\ rule' = ruleNumber
    /\ ruleToggles' = PresetToggles(ruleNumber)
    /\ op' = "setPresetRule"
    /\ arg' = ruleNumber
    /\ UNCHANGED <<cells, previousGenerations, generation, lastInitPattern,
                   viewVars, winVars>>
    /\ UNCHANGED <<gpuVars, uiVars>>

setRule(ruleNumber) ==
    /\ rule' = ruleNumber
    /\ op' = "setRule"
    /\ arg' = ruleNumber
    /\ UNCHANGED <<cells, previousGenerations, ruleToggles, generation,
                   lastInitPattern, viewVars, winVars>>
    /\ UNCHANGED <<gpuVars, uiVars>>

\* the array given by the caller is stored as it is
setRuleToggles(toggles) ==
    /\ ruleToggles' = toggles
    /\ op' = "setRuleToggles"
    /\ arg' = toggles
    /\ UNCHANGED <<cells, previousGenerations, rule, generation,
                   lastInitPattern, viewVars, winVars>>
    /\ UNCHANGED <<gpuVars, uiVars>>

\* toggles[index] = !toggles[index] on a copy of the table; at index
\* toggles.length the read is undefined and the write appends `true`.
\* Larger indices, which leave holes in the array, are not modelled.
toggleRule(index) ==
    /\ index <= Len(ruleToggles)
    /\ ruleToggles' =
           SetIndex(ruleToggles, index,
                    IF index < Len(ruleToggles) THEN ~At(ruleToggles, index)
                    ELSE TRUE)
    /\ op' = "toggleRule"
    /\ arg' = index
    /\ UNCHANGED <<cells, previousGenerations, rule, generation,
                   lastInitPattern, viewVars, winVars>>
    /\ UNCHANGED <<gpuVars, uiVars>>

\* the part shared by setCellSize, setCellMargin and updateCanvasSize;
\* new Array(metrics.maxCells) throws for a negative length
ApplyMetrics(metrics) ==
    /\ metrics.maxCells >= 0
    /\ cells' = Recentre(cells, metrics.maxCells)
    /\ availableWidth' = metrics.availableWidth
    /\ maxCells' = metrics.maxCells
    /\ renderWidth' = metrics.renderWidth
    /\ renderMargin' = metrics.renderMargin
    /\ maxVisibleGenerations' = metrics.maxVisibleGenerations

setCellSize(size) ==
    /\ ApplyMetrics(calculateCanvasMetrics(innerWidth, size, cellMargin, innerHeight))
    /\ cellSize' = size
    /\ op' = "setCellSize"
    /\ arg' = size
    /\ UNCHANGED <<previousGenerations, rule, ruleToggles, generation,
                   lastInitPattern, cellMargin, winVars>>
    /\ UNCHANGED <<gpuVars, uiVars>>

setCellMargin(margin) ==
    /\ ApplyMetrics(calculateCanvasMetrics(innerWidth, cellSize, margin, innerHeight))
    /\ cellMargin' = margin
    /\ op' = "setCellMargin"
    /\ arg' = margin
    /\ UNCHANGED <<previousGenerations, rule, ruleToggles, generation,
                   lastInitPattern, cellSize, winVars>>
    /\ UNCHANGED <<gpuVars, uiVars>>

\* the window resize listener: updateCanvasSize(window.innerWidth)
updateCanvasSize(w, h) ==
    /\ innerWidth' = w
    /\ innerHeight' = h
    /\ ApplyMetrics(calculateCanvasMetrics(w, cellSize, cellMargin, h))
    /\ op' = "updateCanvasSize"
    /\ arg' = w
    /\ UNCHANGED <<previousGenerations, rule, ruleToggles, generation,
                   lastInitPattern, cellSize, cellMargin>>
    /\ UNCHANGED <<gpuVars, uiVars>>

---------------------------------------------------------------------------
(* Renderer methods *)

\* where initialize(canvas) throws, if it does: getContext returning null,
\* one of the three createShader calls, or one of the two createProgram calls
InitializeOutcomes ==
    {"ok", "noContext", "vertexShaderError", "displayShaderError",
     "computeShaderError", "displayLinkError", "computeLinkError"}

\* the GL objects held by the fields of an initialized renderer
HeldObjects ==
    {"displayProgram", "computeProgram", "quadBuffer", "texture0", "texture1",
     "framebuffer0", "framebuffer1"}

\* the GL objects initialize(canvas) has created and not deleted when it
\* returns or throws: a shader that fails to compile and a program that
\* fails to link are deleted, the shaders compiled before are not
CreatedObjects(outcome) ==
    CASE outcome = "ok" -> HeldObjects
      [] outcome = "displayShaderError" -> {"vertexShader"}
      [] outcome = "computeShaderError" -> {"vertexShader", "displayFragShader"}
      [] outcome = "displayLinkError" ->
             {"vertexShader", "displayFragShader", "computeFragShader"}
      [] outcome = "computeLinkError" ->
             {"vertexShader", "displayFragShader", "computeFragShader",
              "displayProgram"}
      [] OTHER -> {}

\* initialize(canvas) on a new instance
initialize(outcome) ==
    /\ ~gl
    /\ gl' = (outcome # "noContext")
    /\ displayProgram' = (outcome \in {"computeLinkError", "ok"})
    /\ computeProgram' = (outcome = "ok")
    /\ quadBuffer' = (outcome = "ok")
    /\ textures' = IF outcome = "ok"
                   THEN <<EmptyTexture(1, 1), EmptyTexture(1, 1)>>
                   ELSE textures
    /\ framebuffers' = IF outcome = "ok" THEN <<0, 1>> ELSE framebuffers
    /\ boundTexture' = IF outcome = "ok" THEN 1 ELSE boundTexture
    /\ boundFramebuffer' = IF outcome = "ok" THEN 1 ELSE boundFramebuffer
    /\ liveObjects' = liveObjects \cup CreatedObjects(outcome)
    /\ op' = "initialize"
    /\ arg' = outcome
    /\ UNCHANGED <<currentTexture, textureWidth, textureHeight,
                   rendererGeneration, rendererRule>>
    /\ UNCHANGED <<simVars, viewVars, winVars, uiVars>>

\* a cleanup() that stops after its first gl.delete call
DeletedFirstOnly ==
    IF gl /\ displayProgram /\ "displayProgram" \in liveObjects
    THEN {"displayProgram"}
    ELSE IF gl /\ computeProgram THEN {"computeProgram"} ELSE {}

\* the GL objects cleanup() deletes: those the fields hold
Deleted ==
    IF ~gl THEN {}
    ELSE (IF displayProgram THEN {"displayProgram"} ELSE {})
         \cup (IF computeProgram THEN {"computeProgram"} ELSE {})
         \cup (IF quadBuffer THEN {"quadBuffer"} ELSE {})
         \cup (IF Len(textures) = 2 THEN {"texture0", "texture1"} ELSE {})
         \cup (IF Len(framebuffers) = 2 THEN {"framebuffer0", "framebuffer1"}
               ELSE {})

\* dispose(), which is cleanup(): the objects are deleted, the fields keep
\* their handles; arg records the objects the call released
dispose ==
    /\ liveObjects' = liveObjects \ Deleted
    /\ op' = "dispose"
    /\ arg' = liveObjects \cap Deleted
    /\ UNCHANGED <<gl, displayProgram, computeProgram, quadBuffer, textures,
                   framebuffers, currentTexture, textureWidth, textureHeight,
                   rendererGeneration, rendererRule, boundTexture,
                   boundFramebuffer>>
    /\ UNCHANGED <<simVars, viewVars, winVars, uiVars>>

\* The body of render(state) past its guard, on a renderer holding `texs`,
\* `fbs` and the given fields: texture sync when the generation counter
\* differs, the display pass, then computeNextState(). While no texture is
\* held the GL calls fail and only the fields change.
RenderResult(texs, fbs, current, width0, height0, gen0, rule0, hasCompute) ==
    LET sync == generation # gen0
        held == Len(texs) = 2 /\ Len(fbs) = 2
        synced == IF sync /\ held
                  THEN UpdatedTextures(texs, width0, height0, cells,
                                       previousGenerations,
                                       maxVisibleGenerations)
                  ELSE texs
        width == IF sync THEN PowerOfTwoCeil(Len(cells)) ELSE width0
        height == IF sync THEN PowerOfTwoCeil(maxVisibleGenerations)
                  ELSE height0
        ruleNumber == IF sync THEN rule ELSE rule0
        displayed == IF sync THEN 0 ELSE current
        target == nextTexture(displayed)
    IN  [textures |-> IF hasCompute /\ held
                      THEN [synced EXCEPT ![fbs[target + 1] + 1] =
                               ComputePass(synced[displayed + 1], @,
                                           ruleNumber, width, height)]
                      ELSE synced,
         currentTexture |-> IF hasCompute THEN target ELSE displayed,
         textureWidth |-> width,
         textureHeight |-> height,
         rendererGeneration |-> IF sync THEN generation ELSE gen0,
         rendererRule |-> ruleNumber,
         boundTexture |-> displayed,
         boundFramebuffer |-> IF hasCompute THEN target ELSE -1]

\* render(state) with the snapshot of the store.
\* (The pixel size of the canvas is not modelled.)
render ==
    /\ op' = "render"
    /\ arg' = generation
    /\ UNCHANGED <<simVars, viewVars, winVars, uiVars>>
    /\ UNCHANGED <<gl, displayProgram, computeProgram, quadBuffer, framebuffers,
                   liveObjects>>
    /\ IF ~gl \/ ~displayProgram
       THEN UNCHANGED <<textures, currentTexture, textureWidth, textureHeight,
                        rendererGeneration, rendererRule, boundTexture,
                        boundFramebuffer>>
       ELSE LET r == RenderResult(textures, framebuffers, currentTexture,
                                  textureWidth, textureHeight,
                                  rendererGeneration, rendererRule,
                                  computeProgram)
            IN  /\ textures' = r.textures
                /\ currentTexture' = r.currentTexture
                /\ textureWidth' = r.textureWidth
                /\ textureHeight' = r.textureHeight
                /\ rendererGeneration' = r.rendererGeneration
                /\ rendererRule' = r.rendererRule
                /\ boundTexture' = r.boundTexture
                /\ boundFramebuffer' = r.boundFramebuffer

---------------------------------------------------------------------------
(* Canvas2DRenderer methods *)

\* initialize(canvas): `ok` tells whether getContext('2d') returns a context
canvas2dInitialize(ok) ==
    /\ c2dCanvas' = TRUE
    /\ c2dCtx' = ok
    /\ op' = "Canvas2DRenderer.initialize"
    /\ arg' = ok
    /\ UNCHANGED <<c2dOptions, surface, appVars, animVars>>
    /\ UNCHANGED <<simVars, viewVars, winVars, gpuVars>>

\* updateViewport(options) as the Canvas calls it, with the store's metrics
updateViewport ==
    /\ c2dOptions' = <<[cellSize |-> cellSize, cellMargin |-> cellMargin,
                        renderMargin |-> renderMargin,
                        maxVisibleGenerations |-> maxVisibleGenerations]>>
    /\ op' = "Canvas2DRenderer.updateViewport"
    /\ arg' = "none"
    /\ UNCHANGED <<c2dCanvas, c2dCtx, surface, appVars, animVars>>
    /\ UNCHANGED <<simVars, viewVars, winVars, gpuVars>>

\* what render(state) leaves on the canvas
Canvas2DRendered ==
    IF ~c2dCtx \/ ~c2dCanvas \/ c2dOptions = <<>>
    THEN surface
    ELSE [background |-> TRUE,
          squares |-> Squares(cells, previousGenerations, c2dOptions[1])]

\* render(state) with the snapshot of the store
canvas2dRender ==
    /\ surface' = Canvas2DRendered
    /\ op' = "Canvas2DRenderer.render"
    /\ arg' = generation
    /\ UNCHANGED <<c2dCanvas, c2dCtx, c2dOptions, appVars, animVars>>
    /\ UNCHANGED <<simVars, viewVars, winVars, gpuVars>>

\* dispose()
canvas2dDispose ==
    /\ c2dCanvas' = FALSE
    /\ c2dCtx' = FALSE
    /\ op' = "Canvas2DRenderer.dispose"
    /\ arg' = "none"
    /\ UNCHANGED <<c2dOptions, surface, appVars, animVars>>
    /\ UNCHANGED <<simVars, viewVars, winVars, gpuVars>>

---------------------------------------------------------------------------
(* The Canvas component *)

RendererTypes == {"webgl", "canvas2d"}

\* a setActiveRenderer that also restarts the run
setActiveRendererRestarts(type) ==
    /\ activeRenderer' = type
    /\ generation' = 0
    /\ previousGenerations' = <<>>
    /\ op' = "setActiveRenderer"
    /\ arg' = type
    /\ UNCHANGED <<webGLSupportCache, probeCount, rendererRef, effectRenderer,
                   built, c2dVars, animVars>>
    /\ UNCHANGED <<cells, rule, ruleToggles, lastInitPattern, viewVars,
                   winVars, gpuVars>>

\* setActiveRenderer(type) of the store
setActiveRenderer(type) ==
    /\ activeRenderer' = type
    /\ op' = "setActiveRenderer"
    /\ arg' = type
    /\ UNCHANGED <<webGLSupportCache, probeCount, rendererRef, effectRenderer,
                   built, c2dVars, animVars>>
    /\ UNCHANGED <<simVars, viewVars, winVars, gpuVars>>

\* The renderer effect of the Canvas, which React runs on mount and after
\* activeRenderer has changed: the cleanup of the run before (dispose the
\* renderer held, clear rendererRef), then a new canvas element,
\* createRenderer(activeRenderer), renderer.initialize(canvas), and with the
\* renderer initialized rendererRef.current = renderer and a first render. An
\* error is caught and logged. `capability` is what the probe would answer,
\* gpuOutcome and c2dOk how the initialize of either renderer would end.
rendererEffect(capability, gpuOutcome, c2dOk) ==
    /\ effectRenderer # activeRenderer
    /\ LET r == createRenderer(activeRenderer, FALSE, webGLSupportCache,
                               capability, gpuOutcome)
           remaining == IF rendererRef = "webgl" THEN liveObjects \ Deleted
                        ELSE liveObjects
           first == RenderResult(<<EmptyTexture(1, 1), EmptyTexture(1, 1)>>,
                                 <<0, 1>>, 0, 1, 1, 0, 0, TRUE)
           ok == gpuOutcome = "ok"
       IN  /\ webGLSupportCache' = r.cache
           /\ probeCount' = probeCount + r.probes
           /\ built' = r.built
           /\ effectRenderer' = activeRenderer
           /\ surface' = BlankSurface
           /\ IF r.kind = "webgl"
              THEN /\ gl' = (gpuOutcome # "noContext")
                   /\ displayProgram' = (gpuOutcome \in {"computeLinkError", "ok"})
                   /\ computeProgram' = ok
                   /\ quadBuffer' = ok
                   /\ framebuffers' = IF ok THEN <<0, 1>> ELSE <<>>
                   /\ textures' = IF ok THEN first.textures ELSE <<>>
                   /\ currentTexture' = IF ok THEN first.currentTexture ELSE 0
                   /\ textureWidth' = IF ok THEN first.textureWidth ELSE 1
                   /\ textureHeight' = IF ok THEN first.textureHeight ELSE 1
                   /\ rendererGeneration' =
                          IF ok THEN first.rendererGeneration ELSE 0
                   /\ rendererRule' = IF ok THEN first.rendererRule ELSE 0
                   /\ boundTexture' = IF ok THEN first.boundTexture ELSE -1
                   /\ boundFramebuffer' =
                          IF ok THEN first.boundFramebuffer ELSE -1
                   /\ liveObjects' = remaining \cup CreatedObjects(gpuOutcome)
                   /\ rendererRef' = IF ok THEN "webgl" ELSE "null"
                   /\ c2dCanvas' = (c2dCanvas /\ rendererRef # "canvas2d")
                   /\ c2dCtx' = (c2dCtx /\ rendererRef # "canvas2d")
                   /\ UNCHANGED c2dOptions
              ELSE /\ c2dCanvas' = TRUE
                   /\ c2dCtx' = c2dOk
                   /\ c2dOptions' = <<>>
                   /\ rendererRef' = IF c2dOk THEN "canvas2d" ELSE "null"
                   /\ liveObjects' = remaining
                   /\ UNCHANGED <<gl, displayProgram, computeProgram,
                                  quadBuffer, textures, framebuffers,
                                  currentTexture, textureWidth, textureHeight,
                                  rendererGeneration, rendererRule,
                                  boundTexture, boundFramebuffer>>
    /\ op' = "rendererEffect"
    /\ arg' = activeRenderer
    /\ UNCHANGED <<activeRenderer, animVars>>
    /\ UNCHANGED <<simVars, viewVars, winVars>>

\* a Canvas that renders without looking at rendererRef
canvasRenderUnguarded ==
    \/ render
    \/ canvas2dRender

\* The state-update effect and the resize listener of the Canvas: render the
\* store's snapshot with the renderer rendererRef holds, if it holds one
canvasRender ==
    \/ rendererRef = "webgl" /\ render
    \/ rendererRef = "canvas2d" /\ canvas2dRender

---------------------------------------------------------------------------
(* The animation effect of the Canvas *)

\* The animation effect, which React runs again when isPlaying or speed has
\* changed: the frame pending is cancelled, and with a renderer held and
\* isPlaying set a loop starts with lastTime = 0 and accumulatedTime = 0
AnimationEffect(playing) ==
    /\ animating' = (playing /\ rendererRef # "null")
    /\ lastTime' = 0
    /\ accumulatedTime' = 0
    /\ firstFrameTime' = 0
    /\ stepsTaken' = 0

\* setIsPlaying(isPlaying) of the store
setIsPlaying(playing) ==
    /\ isPlaying' = playing
    /\ IF playing # isPlaying THEN AnimationEffect(playing)
       ELSE UNCHANGED <<animating, lastTime, accumulatedTime, firstFrameTime,
                        stepsTaken>>
    /\ op' = "setIsPlaying"
    /\ arg' = playing
    /\ UNCHANGED <<speed, c2dVars, appVars>>
    /\ UNCHANGED <<simVars, viewVars, winVars, gpuVars>>

\* setSpeed(speed) of the store
setSpeed(s) ==
    /\ speed' = s
    /\ IF s # speed THEN AnimationEffect(isPlaying)
       ELSE UNCHANGED <<animating, lastTime, accumulatedTime, firstFrameTime,
                        stepsTaken>>
    /\ op' = "setSpeed"
    /\ arg' = s
    /\ UNCHANGED <<isPlaying, c2dVars, appVars>>
    /\ UNCHANGED <<simVars, viewVars, winVars, gpuVars>>

RECURSIVE AnimateLoop(_, _, _, _, _, _)

\* a frame that takes one step at most
AnimateSingleStep(acc, timePerStep, c, prev, gen, n) ==
    IF acc >= timePerStep
    THEN [accumulatedTime |-> acc - timePerStep,
          cells |-> NextCells(c, ruleToggles),
          previousGenerations |-> StepHistory(prev, c, maxVisibleGenerations),
          generation |-> gen + 1, steps |-> n + 1]
    ELSE [accumulatedTime |-> acc, cells |-> c, previousGenerations |-> prev,
          generation |-> gen, steps |-> n]

\* while (accumulatedTime >= timePerStep) { step(); accumulatedTime -=
\* timePerStep; } with n step() calls made so far
AnimateLoop(acc, timePerStep, c, prev, gen, n) ==
    IF acc >= timePerStep
    THEN AnimateLoop(acc - timePerStep, timePerStep,
                     NextCells(c, ruleToggles),
                     StepHistory(prev, c, maxVisibleGenerations),
                     gen + 1, n + 1)
    ELSE [accumulatedTime |-> acc, cells |-> c, previousGenerations |-> prev,
          generation |-> gen, steps |-> n]

\* const timePerStep = 1000 / speed, for a speed that divides 1000
TimePerStep(s) == 1000 \div s

\* animate(currentTime), the frame callback. Times are whole milliseconds,
\* and a frame is taken only at a speed whose timePerStep is a whole number.
animate(currentTime) ==
    /\ animating
    /\ 1000 % speed = 0
    /\ currentTime >= lastTime
    /\ LET last == IF lastTime = 0 THEN currentTime ELSE lastTime
           deltaTime == currentTime - last
           r == AnimateLoop(accumulatedTime + deltaTime, TimePerStep(speed),
                            cells, previousGenerations, generation, 0)
       IN  /\ accumulatedTime + deltaTime
                  <= (MaxGeneration - generation + 1) * TimePerStep(speed)
           /\ r.generation <= MaxGeneration
           /\ lastTime' = currentTime
           /\ accumulatedTime' = r.accumulatedTime
           /\ cells' = r.cells
           /\ previousGenerations' = r.previousGenerations
           /\ generation' = r.generation
           /\ firstFrameTime' = IF firstFrameTime = 0 THEN currentTime
                                ELSE firstFrameTime
           /\ stepsTaken' = stepsTaken + r.steps
    /\ op' = "animate"
    /\ arg' = currentTime
    /\ UNCHANGED <<isPlaying, speed, animating, c2dVars, appVars>>
    /\ UNCHANGED <<rule, ruleToggles, lastInitPattern, viewVars, winVars,
                   gpuVars>>

---------------------------------------------------------------------------
(* The store under every action *)

\* two of the preset buttons of the controls panel
PresetRules == {30, 110}

Next ==
    \/ step
    \/ incrementGeneration
    \/ \E p \in Patterns, r \in BoolArrays(maxCells) : initializePattern(p, r)
    \/ \E r \in BoolArrays(maxCells) : resetGeneration(r)
    \/ \E n \in PresetRules : setPresetRule(n)
    \/ \E s \in 1..MaxCellSize : setCellSize(s)
    \/ \E m \in 0..MaxCellMargin : setCellMargin(m)
    \/ \E w \in Widths, h \in Heights : updateCanvasSize(w, h)

Spec == Init /\ [][Next]_vars

---------------------------------------------------------------------------
(* The rule engine: a fixed viewport, every rule number, every Generation *)

InitRule ==
    \E n \in 0..MaxRuleCells :
        InitStore(SIDEBAR_WIDTH + DEFAULT_CELL_SIZE * n, DEFAULT_CELL_SIZE)

\* the rule is chosen before the run, and one step is taken per pattern; a
\* rule chosen right after another gives the states of its first choice
NextRule ==
    \/ generation = 0 /\ step
    \/ \E p \in {"single", "random"}, r \in BoolArrays(maxCells) :
           initializePattern(p, r)
    \/ generation = 0 /\ op # "setPresetRule"
           /\ \E n \in 0..255 : setPresetRule(n)

SpecRule == InitRule /\ [][NextRule]_vars

---------------------------------------------------------------------------
(* The history window under appends: a fixed viewport of any depth *)

InitAppend ==
    \E w \in Widths, m \in 0..MaxDepth :
        InitStore(w, DEFAULT_CELL_SIZE * m)

NextAppend ==
    \/ step
    \/ incrementGeneration
    \/ \E p \in Patterns, r \in BoolArrays(maxCells) : initializePattern(p, r)
    \/ \E r \in BoolArrays(maxCells) : resetGeneration(r)

SpecAppend == InitAppend /\ [][NextAppend]_vars

---------------------------------------------------------------------------
(* The viewport under resizes: every window, cell size and margin, and     *)
(* every current Generation                                                *)

NextView ==
    \/ \E r \in BoolArrays(maxCells) : initializePattern("random", r)
    \/ \E s \in 1..MaxCellSize : setCellSize(s)
    \/ \E m \in 0..MaxCellMargin : setCellMargin(m)
    \/ \E w \in Widths, h \in Heights : updateCanvasSize(w, h)

SpecView == Init /\ [][NextView]_vars

---------------------------------------------------------------------------
(* The rule table under every action that writes it: a fixed viewport *)

\* arrays given to setRuleToggles: two 8-entry tables and a 9-entry array.
\* (Arrays shorter than 8 make step() read `undefined`, which is not a value
\* of the boolean arrays of this model.)
TableInputs == {PresetToggles(30), Filled(8, FALSE), Filled(9, TRUE)}

\* the rule grid offers indices 0..7; 8 is the first index past the table
ToggleIndices == 0..8

InitTable ==
    \E n \in 1..MaxTableCells :
        InitStore(SIDEBAR_WIDTH + DEFAULT_CELL_SIZE * n, DEFAULT_CELL_SIZE)

NextTable ==
    \/ step
    \/ \E n \in PresetRules : setPresetRule(n)
    \/ \E n \in PresetRules : setRule(n)
    \/ \E t \in TableInputs : setRuleToggles(t)
    \/ \E i \in ToggleIndices : toggleRule(i)

SpecTable == InitTable /\ [][NextTable]_vars

---------------------------------------------------------------------------
(* The GPU renderer drawing the store: the Canvas component creates and    *)
(* initializes the renderer and calls render with the store's snapshot     *)

GpuHeights == 1 .. MaxGpuHeight

\* the window is dragged between a narrow and a wide width
GpuWidths == {SIDEBAR_WIDTH + 1, SIDEBAR_WIDTH + MaxGpuAvail}

InitGpu ==
    \E h \in GpuHeights : InitStore(SIDEBAR_WIDTH + MaxGpuAvail, h)

NextGpu ==
    \/ \E o \in {"ok", "noContext"} : initialize(o)
    \/ render
    \/ step
    \/ \E r \in BoolArrays(maxCells) : initializePattern("random", r)
    \/ generation = 0 /\ setPresetRule(30)
    \/ \E s \in 1..MaxCellSize : setCellSize(s)
    \/ \E w \in GpuWidths : updateCanvasSize(w, innerHeight)

SpecGpu == InitGpu /\ [][NextGpu]_vars

---------------------------------------------------------------------------
(* The ping-pong textures: a fixed viewport, renders with and without a    *)
(* texture sync in between                                                 *)

NextPingPong ==
    \/ \E o \in {"ok", "noContext"} : initialize(o)
    \/ render
    \/ step
    \/ \E r \in BoolArrays(maxCells) : initializePattern("random", r)

SpecPingPong == InitGpu /\ [][NextPingPong]_vars

---------------------------------------------------------------------------
(* Vocabulary of the properties *)

\* 1 for a live cell, 0 for a dead cell
LiveValue(b) == IF b THEN 1 ELSE 0

\* bit k of the number r is 1 (bit 0 is the least significant)
HasBit(r, k) == (r % (2 ^ (k + 1))) >= 2 ^ k

\* the neighbourhood pattern 4*left + 2*center + right of index i in g, toroidal
Neighbourhood(g, i) ==
    LET N == Len(g)
    IN  4 * LiveValue(At(g, (i - 1 + N) % N)) + 2 * LiveValue(At(g, i))
          + LiveValue(At(g, (i + 1) % N))

\* the indices of the live cells of g
LiveIndices(g) == {i \in 0..(Len(g) - 1) : At(g, i)}

\* the last k entries of s, all of s when it has fewer
LastEntries(s, k) ==
    IF Len(s) <= k THEN s ELSE SubSeq(s, Len(s) - k + 1, Len(s))

---------------------------------------------------------------------------
(* Properties of the rule engine, checked under SpecRule *)

\* C1: for every Generation g of length N >= 1 and every 8-entry rule table t,
\* step() replaces cells by next with next[i] = t[7 - (4*g[(i-1+N)%N] + 2*g[i]
\* + g[(i+1)%N])]: the neighbours are taken toroidally.
C1_StepToroidal ==
    [][(op' = "step" /\ Len(cells) >= 1 /\ Len(ruleToggles) = 8) =>
          /\ Len(cells') = Len(cells)
          /\ \A i \in 0..(Len(cells) - 1) :
                 At(cells', i) = At(ruleToggles, 7 - Neighbourhood(cells, i))]_vars

\* a step in which index 0 was decided by its left neighbour, index N-1
C1_Witness ==
    /\ op = "step"
    /\ previousGenerations = << <<FALSE, FALSE, TRUE>> >>
    /\ rule = 16
    /\ cells = <<TRUE, FALSE, FALSE>>

\* C2: for every rule number r in 0..255, setPresetRule(r) sets rule = r and
\* sets ruleToggles to a table of exactly 8 booleans with table[7-i] true iff
\* bit i of r is 1.
C2_PresetTable ==
    op = "setPresetRule" =>
        /\ arg \in 0..255
        /\ rule = arg
        /\ Len(ruleToggles) = 8
        /\ \A i \in 0..7 : At(ruleToggles, 7 - i) = HasBit(arg, i)

\* setPresetRule(30): 30 = 00011110b
C2_Witness ==
    /\ op = "setPresetRule"
    /\ arg = 30
    /\ ruleToggles = <<FALSE, FALSE, FALSE, TRUE, TRUE, TRUE, TRUE, FALSE>>

\* C3: a step() taken after setPresetRule(r) makes cell i live iff bit number
\* 4*left + 2*center + right of r is 1; pattern 7 is decided by the
\* highest-order bit of r and pattern 0 by the lowest-order bit.
C3_StepReadsRuleBit ==
    [][(op = "setPresetRule" /\ op' = "step" /\ Len(cells) >= 1) =>
          /\ \A i \in 0..(Len(cells) - 1) :
                 At(cells', i) = HasBit(arg, Neighbourhood(cells, i))
          /\ \A i \in 0..(Len(cells) - 1) :
                 /\ Neighbourhood(cells, i) = 7 => (At(cells', i) <=> arg >= 128)
                 /\ Neighbourhood(cells, i) = 0 => (At(cells', i) <=> arg % 2 = 1)]_vars

\* rule 128 keeps exactly the all-live neighbourhoods live
C3_Witness ==
    /\ op = "step"
    /\ rule = 128
    /\ previousGenerations = << <<TRUE, TRUE, TRUE>> >>
    /\ cells = <<TRUE, TRUE, TRUE>>

\* C4: with rule 30 and a Generation of length N >= 3 whose only live cell is
\* the centre index floor(N/2) (initializePattern('single')), one step() yields
\* exactly 3 live cells: the centre index and its two neighbours.
C4_Rule30Single ==
    [][(/\ op = "initializePattern" /\ arg = "single"
        /\ rule = 30 /\ maxCells >= 3
        /\ op' = "step") =>
          /\ Len(cells') = maxCells
          /\ Cardinality(LiveIndices(cells')) = 3
          /\ LiveIndices(cells') =
                 {maxCells \div 2 - 1, maxCells \div 2, maxCells \div 2 + 1}]_vars

C4_Witness ==
    /\ op = "step"
    /\ rule = 30
    /\ maxCells = 3
    /\ previousGenerations = << <<FALSE, TRUE, FALSE>> >>
    /\ cells = <<TRUE, TRUE, TRUE>>

\* C5: for every Generation of length N >= 1, after setPresetRule(255) step()
\* yields all cells live, and after setPresetRule(0) all cells dead.  (Under
\* SpecRule the rule number is written by setPresetRule only and starts at 110.)
C5_Rule255And0 ==
    [][(op' = "step" /\ Len(cells) >= 1 /\ rule \in {0, 255}) =>
          /\ Len(cells') = Len(cells)
          /\ rule = 255 => \A i \in 0..(Len(cells) - 1) : At(cells', i)
          /\ rule = 0 => \A i \in 0..(Len(cells) - 1) : ~At(cells', i)]_vars

C5_Witness ==
    /\ op = "step"
    /\ rule = 255
    /\ previousGenerations = << <<FALSE, FALSE>> >>
    /\ cells = <<TRUE, TRUE>>

\* C6: for a Generation of length N = 1, step() uses the single cell as left,
\* center and right neighbour: the result is [t[0]] when g[0] is live and
\* [t[7]] when g[0] is dead, for every rule table t.
C6_SingleCell ==
    [][(op' = "step" /\ Len(cells) = 1 /\ Len(ruleToggles) = 8) =>
          cells' = << IF At(cells, 0) THEN At(ruleToggles, 0)
                      ELSE At(ruleToggles, 7) >>]_vars

\* rule 127 turns the single live cell dead: t[0] is false
C6_Witness ==
    /\ op = "step"
    /\ maxCells = 1
    /\ rule = 127
    /\ previousGenerations = << <<TRUE>> >>
    /\ cells = <<FALSE>>

---------------------------------------------------------------------------
(* Properties of the history window *)

\* C7: with the depth M fixed, after any sequence of appends (step() or
\* incrementGeneration()) starting from an empty window,
\* previousGenerations.length never exceeds M.  Checked under SpecAppend.
C7_AppendsWithinDepth ==
    op \in {"step", "incrementGeneration"} =>
        Len(previousGenerations) <= maxVisibleGenerations

\* C8: with M fixed, after M+k appends from an empty window the history holds
\* exactly the M most recently pushed generations in push order: each append
\* leaves the last M entries of the window followed by the pushed Generation.
\* Checked under SpecAppend.
C8_FifoWindow ==
    [][op' \in {"step", "incrementGeneration"} =>
          previousGenerations' =
              LastEntries(Append(previousGenerations, cells),
                          maxVisibleGenerations)]_vars

\* C9: in every reachable state of the store, after any interleaving of the
\* store actions, previousGenerations.length <= maxVisibleGenerations.
C9_WindowWithinDepth ==
    Len(previousGenerations) <= maxVisibleGenerations

\* C10: when a viewport change lowers the depth from M to newM and the history
\* holds more than newM generations, the history afterwards is exactly its
\* last newM entries in the same order; when it holds at most newM
\* generations it is left unchanged.
C10_ResizeTrimsWindow ==
    [][(/\ op' \in {"setCellSize", "setCellMargin", "updateCanvasSize"}
        /\ maxVisibleGenerations' < maxVisibleGenerations) =>
          previousGenerations' =
              LastEntries(previousGenerations, maxVisibleGenerations')]_vars

---------------------------------------------------------------------------
(* Properties of resets (SpecAppend) and of the viewport (SpecView; C12 under
   Spec) *)

\* g is what pattern p gives for n cells
IsPattern(g, p, n) ==
    CASE p = "single"      -> LiveIndices(g) = {n \div 2}
      [] p = "random"      -> Len(g) = n
      [] p = "filled"      -> Len(g) = n /\ \A i \in 0..(n - 1) : At(g, i)
      [] p = "empty"       -> Len(g) = n /\ \A i \in 0..(n - 1) : ~At(g, i)
      [] p = "alternating" -> Len(g) = n /\ \A i \in 0..(n - 1) :
                                                At(g, i) <=> (i % 2 = 0)

\* C11: after initializePattern(p), for any pattern p, and after
\* resetGeneration(), previousGenerations is empty and generation is 0 whatever
\* the state before; resetGeneration re-creates the cells with the pattern
\* that was used last.
C11_ResetEmptiesWindow ==
    [][op' \in {"initializePattern", "resetGeneration"} =>
          /\ previousGenerations' = <<>>
          /\ generation' = 0
          /\ op' = "initializePattern" =>
                 /\ lastInitPattern' = arg'
                 /\ IsPattern(cells', arg', maxCells)
          /\ op' = "resetGeneration" =>
                 /\ lastInitPattern' = lastInitPattern
                 /\ IsPattern(cells', lastInitPattern, maxCells)]_vars

\* a reset to the empty pattern
C11_Witness ==
    /\ op = "resetGeneration"
    /\ lastInitPattern = "empty"
    /\ maxCells = 1
    /\ cells = <<FALSE>>
    /\ previousGenerations = <<>>
    /\ generation = 0

\* C12: in every reachable state every Generation held in the history window
\* has the same length as the current Generation: step() keeps the length, and
\* a viewport change that gives the current Generation another length also
\* clears the history window.
C12_HistorySameLength ==
    \A k \in 1..Len(previousGenerations) :
        Len(previousGenerations[k]) = Len(cells)

---------------------------------------------------------------------------
(* Properties of the rule table, checked under SpecTable *)

\* C13: after any sequence of setPresetRule, toggleRule(index), setRuleToggles
\* and step calls, ruleToggles has exactly 8 entries.
C13_TableHasEightEntries ==
    Len(ruleToggles) = 8

\* C14: step() called with a rule table whose length is not 8 fails loudly
\* instead of producing a next Generation: a step that completes had a table
\* of exactly 8 entries.
C14_StepNeedsEightEntries ==
    [][op' = "step" => Len(ruleToggles) = 8]_vars

---------------------------------------------------------------------------
(* Properties of the GPU renderer *)

\* a render() that got past its guard and ran the compute pass
ComputePassRan == op' = "render" /\ gl /\ displayProgram /\ computeProgram

\* C18: every compute pass reads textures[currentTexture] and writes the
\* framebuffer of textures[1 - currentTexture], never the texture it reads;
\* after the pass currentTexture is the index that was written, so across
\* consecutive passes with no texture sync in between the read index
\* alternates and stays in {0, 1}.  Checked under SpecPingPong.
C18_PingPong ==
    [][ComputePassRan =>
          /\ boundTexture' \in {0, 1}
          /\ boundFramebuffer' = 1 - boundTexture'
          /\ framebuffers[boundFramebuffer' + 1] # boundTexture'
          /\ currentTexture' = boundFramebuffer'
          /\ generation = rendererGeneration =>
                 /\ boundTexture' = currentTexture
                 /\ currentTexture' = 1 - currentTexture]_vars

\* a pass without sync that read texture 1 and wrote texture 0
C18_Witness ==
    /\ op = "render"
    /\ computeProgram
    /\ generation = 0
    /\ boundTexture = 1
    /\ boundFramebuffer = 0
    /\ currentTexture = 0

\* a render() that got past its guard and synced the texture: the snapshot's
\* generation counter differs from the one synced last
SyncRan == op' = "render" /\ gl /\ displayProgram /\ generation # rendererGeneration

\* C17: for every snapshot with previousGenerations.length <= M the two
\* backends agree on the live (row, cell index) positions: row r of the CPU
\* raster (the rows of the last M history entries, then cells) is live at c
\* iff row r of the texture the GPU backend uploads and displays is live at c.
\* Checked under SpecGpu.
C17_BackendsAgree ==
    [][(SyncRan /\ Len(previousGenerations) <= maxVisibleGenerations) =>
          CanvasLive(cells, previousGenerations, maxVisibleGenerations)
              = DisplayLive(textures'[boundTexture' + 1],
                            maxVisibleGenerations)]_vars

\* C19: a render(state) whose generation counter differs from the one synced
\* last re-encodes the last M rows of [...previousGenerations, cells], oldest
\* first, one row per generation, live cells at full intensity and everything
\* else zero, into the texture that the display pass of that frame reads, and
\* records state.generation as synced.  Checked under SpecGpu.
C19_SyncEncodesWindow ==
    [][SyncRan =>
          LET rows == LastEntries(Append(previousGenerations, cells),
                                  maxVisibleGenerations)
              tex == textures'[boundTexture' + 1]
          IN  /\ rendererGeneration' = generation
              /\ boundTexture' = 0
              /\ \A y \in 0..(tex.h - 1) : \A x \in 0..(tex.w - 1) :
                     Texel(tex, x, y) =
                         IF /\ y < Len(rows)
                            /\ x < Len(rows[y + 1])
                            /\ At(rows[y + 1], x)
                         THEN 255 ELSE 0]_vars

\* C20: for every synced snapshot with N >= 1 and M >= 1, the compute pass
\* writes into the source row (row 0) of the write texture the Generation the
\* host step() produces from the snapshot's current Generation under
\* setPresetRule(rule): texel x is live iff bit 4*left + 2*center + right of
\* the rule is 1, the neighbours wrapped over the N cells.  Checked under
\* SpecGpu.
C20_ComputeMatchesStep ==
    [][(/\ SyncRan /\ computeProgram
        /\ Len(cells) >= 1 /\ maxVisibleGenerations >= 1) =>
          \A x \in 0..(Len(cells) - 1) :
              (Texel(textures'[currentTexture' + 1], x, 0) > 127)
                  <=> HasBit(rule, Neighbourhood(cells, x))]_vars

\* C30: after one compute pass on a texture synced from snapshot S, the write
\* texture equals the encoding that texture sync produces for the host state
\* reached from S by one step(): the history scrolled by one row toward the
\* oldest end and the newly computed Generation on the source row.  Stated
\* for snapshots whose rule table is the table of the rule number and whose
\* rows all have the width of the texture.  Checked under SpecGpu.
C30_ComputeMatchesNextSync ==
    [][(/\ SyncRan /\ computeProgram
        /\ Len(cells) >= 1 /\ maxVisibleGenerations >= 1
        /\ Len(cells) = PowerOfTwoCeil(Len(cells))
        /\ \A k \in 1..Len(previousGenerations) :
               Len(previousGenerations[k]) = Len(cells)
        /\ Len(ruleToggles) = 8
        /\ \A i \in 0..7 : At(ruleToggles, 7 - i) = HasBit(rule, i)) =>
          textures'[currentTexture' + 1] =
              UpdatedTextures(textures', textureWidth', textureHeight',
                              NextCells(cells, ruleToggles),
                              StepHistory(previousGenerations, cells,
                                          maxVisibleGenerations),
                              maxVisibleGenerations)[1]]_vars

---------------------------------------------------------------------------
(* The two renderers called directly: construction, initialize, dispose *)

NextLife ==
    \/ \E outcome \in InitializeOutcomes : initialize(outcome)
    \/ dispose
    \/ \E ok \in BOOLEAN : canvas2dInitialize(ok)
    \/ canvas2dDispose
    \/ step

SpecLife == Init /\ [][NextLife]_vars

\* C21: after an initialize(canvas) that threw, the renderer holds nothing:
\* no context, no program, no vertex buffer, no texture, no framebuffer.
C21_FailedInitializeLeavesNothing ==
    (op = "initialize" /\ arg # "ok") =>
        (/\ ~gl /\ ~displayProgram /\ ~computeProgram /\ ~quadBuffer
         /\ textures = <<>> /\ framebuffers = <<>>)

\* C22: dispose() on a renderer that was never initialized changes nothing,
\* and a dispose() that follows a dispose() releases no object and leaves
\* every field of the renderer as the first call left it; for both renderers.
C22_DisposeIdempotent ==
    [][/\ (op' = "dispose" /\ ~gl) => (arg' = {} /\ gpuVars' = gpuVars)
       /\ (op' = "dispose" /\ op = "dispose") =>
              (arg' = {} /\ gpuVars' = gpuVars)
       /\ (op' = "Canvas2DRenderer.dispose" /\ ~c2dCanvas /\ ~c2dCtx) =>
              c2dVars' = c2dVars
       /\ (op' = "Canvas2DRenderer.dispose"
           /\ op = "Canvas2DRenderer.dispose") => c2dVars' = c2dVars]_vars

\* a second dispose() on a renderer that was initialized has run
C22_Witness ==
    /\ op = "dispose" /\ gl /\ computeProgram /\ Len(textures) = 2
    /\ arg = {} /\ liveObjects = {}

---------------------------------------------------------------------------
(* The Canvas with the renderer factory: mount, renderer switches, renders *)

InitCanvas ==
    \E h \in GpuHeights, capability \in BOOLEAN :
        InitStoreProbed(SIDEBAR_WIDTH + MaxGpuAvail, h, capability)

NextCanvas ==
    \/ \E type \in RendererTypes : setActiveRenderer(type)
    \/ \E capability \in BOOLEAN, gpuOutcome \in InitializeOutcomes,
          c2dOk \in BOOLEAN : rendererEffect(capability, gpuOutcome, c2dOk)
    \/ canvasRender
    \/ step

SpecCanvas == InitCanvas /\ [][NextCanvas]_vars

\* the GPU renderer is initialized and not disposed
GpuLive == HeldObjects \subseteq liveObjects

\* the Canvas2D renderer is initialized and not disposed
Canvas2DLive == c2dCanvas /\ c2dCtx

\* C23: the capability probe runs once, in the first support check, which
\* stores a boolean in the cache; no later hasWebGLSupport() or createRenderer
\* call probes again or changes the cached answer.
C23_ProbeOnce ==
    /\ [](probeCount = 1 /\ webGLSupportCache \in {"true", "false"})
    /\ [][/\ webGLSupportCache' = webGLSupportCache
          /\ probeCount' = probeCount
          /\ \A capability \in BOOLEAN :
                 isWebGL2Supported(webGLSupportCache, capability).result
                     = (webGLSupportCache = "true")]_vars

\* a createRenderer('webgl') call after the first support check has
\* constructed the GPU renderer from the cached answer
C23_Witness ==
    /\ op = "rendererEffect" /\ arg = "webgl"
    /\ probeCount = 1 /\ webGLSupportCache = "true"
    /\ built = <<"webgl">>

\* C24: with a false probe createRenderer constructs the Canvas2D renderer
\* only and returns it, whatever the preferred type, given or not; with
\* 'canvas2d' preferred it does so even when the probe is true; and the
\* renderer effect then leaves the fields of the GPU renderer as they were.
C24_NoGpuWithoutSupportOrPreference ==
    /\ [](\A type \in RendererTypes \cup {"none"}, canvas \in BOOLEAN,
             capability \in BOOLEAN, gpuOutcome \in InitializeOutcomes :
             LET r == createRenderer(type, canvas, webGLSupportCache,
                                     capability, gpuOutcome)
             IN  (r.cache = "false" \/ type = "canvas2d") =>
                     (r.built = <<"canvas2d">> /\ r.kind = "canvas2d"))
    /\ [][(op' = "rendererEffect"
           /\ (webGLSupportCache' = "false" \/ activeRenderer = "canvas2d")) =>
              /\ built' = <<"canvas2d">>
              /\ <<gl, displayProgram, computeProgram, quadBuffer, textures,
                   framebuffers, currentTexture, rendererGeneration>>'
                 = <<gl, displayProgram, computeProgram, quadBuffer, textures,
                     framebuffers, currentTexture, rendererGeneration>>
              /\ liveObjects' \subseteq liveObjects]_vars

\* 'webgl' was preferred in a browser without WebGL2 and the Canvas2D
\* renderer was constructed and initialized
C24_Witness ==
    /\ op = "rendererEffect" /\ arg = "webgl"
    /\ webGLSupportCache = "false"
    /\ built = <<"canvas2d">> /\ rendererRef = "canvas2d" /\ ~gl

\* C25: a renderer effect that selected the GPU renderer ends with
\* rendererRef holding an initialized renderer, the GPU one or the Canvas2D
\* one constructed in its place.
C25_SelectionEndsUsable ==
    (op = "rendererEffect" /\ Len(built) >= 1 /\ built[1] = "webgl") =>
        \/ rendererRef = "webgl" /\ GpuLive
        \/ rendererRef = "canvas2d" /\ Canvas2DLive

\* C26: the renderer effect releases every object of the renderer it held
\* before it constructs the next one, the two renderers are never live
\* together, and the Canvas renders only with a renderer that is initialized
\* and not disposed.
C26_SwitchDisposesFirst ==
    /\ [](~(GpuLive /\ Canvas2DLive))
    /\ [][/\ (op' = "rendererEffect" /\ rendererRef = "webgl") =>
                 (liveObjects' \cap HeldObjects = {} /\ rendererRef' # "webgl")
          /\ (op' = "rendererEffect" /\ rendererRef = "canvas2d"
              /\ built' = <<"webgl">>) => ~c2dCanvas' /\ ~c2dCtx'
          /\ (op' = "render") =>
                 (GpuLive /\ gl /\ displayProgram /\ computeProgram)
          /\ (op' = "Canvas2DRenderer.render") => Canvas2DLive]_vars

\* the GPU renderer was initialized, a switch has disposed it, and the
\* Canvas2D renderer is the one held
C26_Witness ==
    /\ op = "rendererEffect" /\ rendererRef = "canvas2d" /\ Canvas2DLive
    /\ gl /\ computeProgram /\ Len(textures) = 2
    /\ liveObjects \cap HeldObjects = {}

\* C27: setActiveRenderer and the renderer effect that follows it leave
\* cells, previousGenerations, generation, rule and ruleToggles unchanged.
C27_SwapKeepsSimulation ==
    [][(op' = "setActiveRenderer" \/ op' = "rendererEffect") =>
           <<cells, previousGenerations, generation, rule, ruleToggles>>'
               = <<cells, previousGenerations, generation, rule,
                   ruleToggles>>]_vars

\* a renderer switch in the middle of a run: the run has a history and the
\* renderer held has changed to the Canvas2D one
C27_Witness ==
    /\ op = "rendererEffect" /\ arg = "canvas2d" /\ rendererRef = "canvas2d"
    /\ generation >= 1 /\ previousGenerations # <<>>
    /\ webGLSupportCache = "true"

---------------------------------------------------------------------------
(* The animation loop of the Canvas *)

\* speeds of the slider (1..1000 generations per second) that divide 1000
Speeds == {1000, 500, 250}

NextAnim ==
    \/ rendererEffect(TRUE, "ok", TRUE)
    \/ \E playing \in BOOLEAN : setIsPlaying(playing)
    \/ \E s \in Speeds : setSpeed(s)
    \/ \E currentTime \in 1..MaxTime : animate(currentTime)

SpecAnim == InitGpu /\ [][NextAnim]_vars

---------------------------------------------------------------------------
(* The Canvas2D renderer with its viewport options, over runs of the store *)

InitCanvas2DSpec == InitStore(SIDEBAR_WIDTH + MaxAvail, MaxHeight)

NextCanvas2D ==
    \/ \E ok \in BOOLEAN : canvas2dInitialize(ok)
    \/ updateViewport
    \/ canvas2dRender
    \/ canvas2dDispose
    \/ step
    \/ \E s \in 1..MaxCellSize : setCellSize(s)
    \/ \E m \in 0..MaxCellMargin : setCellMargin(m)

SpecCanvas2D == InitCanvas2DSpec /\ [][NextCanvas2D]_vars

\* s.slice(-k) of JavaScript: the last k entries of s, all of s when k is 0
JsSliceFromEnd(s, k) == IF k = 0 THEN s ELSE LastEntries(s, k)

\* the rows [...previousGenerations.slice(-M), cells] for the options held
DrawnRows(options) ==
    JsSliceFromEnd(previousGenerations, options.maxVisibleGenerations)
        \o <<cells>>

\* one square per live cell x of row k, at the doubled pixel offsets
\* 2 * (renderMargin + x * (cellSize + cellMargin)) + shift and
\* 2 * (k * (cellSize + cellMargin)) + shift
SquaresAt(options, shift) ==
    LET rows == DrawnRows(options)
        pitch == options.cellSize + options.cellMargin
        Square(k, x) == [x2 |-> 2 * (options.renderMargin + x * pitch) + shift,
                         y2 |-> 2 * (k * pitch) + shift,
                         side |-> options.cellSize - 1]
    IN  UNION {{Square(k, x) : x \in LiveIndices(rows[k + 1])} :
                   k \in 0..(Len(rows) - 1)}

\* the renderer can draw: canvas, context and viewport options are held
CanDraw == c2dCanvas /\ c2dCtx /\ c2dOptions # <<>>

\* C29, with whole-pixel offsets: render(state) clears the surface and draws, for each live
\* cell x of row k, one square of side cellSize - 1 at the pixel offsets
\* renderMargin + x * (cellSize + cellMargin) and k * (cellSize + cellMargin),
\* and nothing else.
C29_SquaresAtCellOffsets ==
    [][(op' = "Canvas2DRenderer.render" /\ CanDraw) =>
           surface' = [background |-> TRUE,
                       squares |-> SquaresAt(c2dOptions[1], 0)]]_vars

\* C29, with half-pixel offsets: with canvas, context and viewport options held,
\* render(state) clears the surface and draws, for each live cell x of row k,
\* one square of side cellSize - 1 at the pixel offsets
\* renderMargin + x * (cellSize + cellMargin) + 0.5 and
\* k * (cellSize + cellMargin) + 0.5, and nothing else, whatever the surface
\* showed before; without one of the three it draws nothing.
C29_SquaresAtHalfPixelOffsets ==
    [][(op' = "Canvas2DRenderer.render") =>
           IF CanDraw
           THEN surface' = [background |-> TRUE,
                            squares |-> SquaresAt(c2dOptions[1], 1)]
           ELSE surface' = surface]_vars

\* a render of two rows with a live cell 0 each, with a cell pitch of 2:
\* squares of side 1 at (0.5, 0.5) and (0.5, 2.5)
C29_Witness ==
    /\ op = "Canvas2DRenderer.render" /\ CanDraw
    /\ Len(previousGenerations) = 1 /\ generation >= 1
    /\ surface = [background |-> TRUE,
                  squares |-> {[x2 |-> 1, y2 |-> 1, side |-> 1],
                               [x2 |-> 1, y2 |-> 5, side |-> 1]}]

---------------------------------------------------------------------------
(* Properties of the renderers over whole runs *)

\* C31: the texture that the display pass of any render(state) samples holds
\* what a texture sync uploads for that state: the rows of the visible history
\* and the current Generation, for N >= 1 and M >= 1; also when the
\* generation counter is the one synced last.  Checked under SpecGpu.
C31_DisplayedEncodesLatest ==
    [][(/\ op' = "render" /\ gl /\ displayProgram
        /\ Len(cells) >= 1 /\ maxVisibleGenerations >= 1) =>
           textures'[boundTexture' + 1] =
               UpdatedTextures(textures, textureWidth, textureHeight, cells,
                               previousGenerations,
                               maxVisibleGenerations)[1]]_vars

\* C32: after dispose() the renderer is Disposed: the objects its fields held
\* are released and the fields are cleared, so that the guard of render(),
\* !this.gl || !this.displayProgram, returns before any GL call.  Checked
\* under SpecLife.
C32_DisposedIsTerminal ==
    (op = "dispose") =>
        (/\ liveObjects \cap HeldObjects = {}
         /\ ~gl /\ ~displayProgram /\ ~computeProgram /\ ~quadBuffer
         /\ textures = <<>> /\ framebuffers = <<>>)

\* n is a power of two
IsPowerOfTwo(n) == \E e \in 0..n : 2 ^ e = n

\* C33: on every texture sync with N >= 1 and M >= 1 the texture is
\* texWidth x texHeight texels, the smallest powers of two >= N and >= M, and
\* every live cell x of every row y of the visible generations, the ones
\* recorded before a resize included, has 0 <= x < texWidth and
\* 0 <= y < texHeight and is the texel (x, y) of the upload.  Checked under
\* SpecGpu.
C33_WritesStayInRow ==
    [][(SyncRan /\ Len(cells) >= 1 /\ maxVisibleGenerations >= 1) =>
          LET tex == textures'[1]
              rows == SliceLast(Append(previousGenerations, cells),
                                maxVisibleGenerations)
          IN  /\ IsPowerOfTwo(tex.w) /\ tex.w >= Len(cells)
              /\ tex.w < 2 * Len(cells)
              /\ IsPowerOfTwo(tex.h) /\ tex.h >= maxVisibleGenerations
              /\ tex.h < 2 * maxVisibleGenerations
              /\ \A y \in 0..(Len(rows) - 1) : \A x \in LiveIndices(rows[y + 1]) :
                     /\ x < tex.w /\ y < tex.h
                     /\ Texel(tex, x, y) = 255]_vars

\* C34: in every state of the store the rule number and the rule table
\* agree: the table has 8 entries and ruleToggles[7 - i] is true iff bit i of
\* rule is 1, for every i in 0..7.  Checked under SpecTable.
C34_RuleAndTableAgree ==
    /\ Len(ruleToggles) = 8
    /\ \A i \in 0..7 : At(ruleToggles, 7 - i) = HasBit(rule, i)

---------------------------------------------------------------------------
(* Properties of a run between resets *)

\* the smaller of two numbers
Min(a, b) == IF a <= b THEN a ELSE b

---------------------------------------------------------------------------
(* Runs of the automaton: a fixed viewport of 0..MaxRuleCells cells and a   *)
(* window of depth 1..MaxDepth, the rule chosen before the run              *)

InitOrbit ==
    \E n \in 0..MaxRuleCells, m \in 1..MaxDepth :
        InitStore(SIDEBAR_WIDTH + DEFAULT_CELL_SIZE * n, DEFAULT_CELL_SIZE * m)

NextOrbit ==
    \/ step
    \/ incrementGeneration
    \/ \E r \in BoolArrays(maxCells) : initializePattern("random", r)
    \/ \E r \in BoolArrays(maxCells) : resetGeneration(r)
    \/ generation = 0 /\ \E n \in PresetRules : setPresetRule(n)

SpecOrbit == InitOrbit /\ [][NextOrbit]_vars

\* the Generation that follows g under the rule table t: cell i is the entry
\* 7 - (4*left + 2*center + right) of t
Successor(g, t) == [i \in 1..Len(g) |-> At(t, 7 - Neighbourhood(g, i - 1))]

\* every entry of s but the first is the successor of the entry before it
IsOrbit(s, t) == \A k \in 1..(Len(s) - 1) : s[k + 1] = Successor(s[k], t)

\* C36 for every state: [...previousGenerations, cells] is a contiguous run
\* of the orbit under the rule table.  Checked under SpecOrbit.
C36_HistoryIsOrbit ==
    IsOrbit(Append(previousGenerations, cells), ruleToggles)

\* C36 for runs of step(): a reset leaves a run of the orbit, and a step()
\* taken on a run of the orbit leaves one: its newest history entry is the
\* Generation that was current before the step, the entries before it are
\* the old entries, unmodified and in order, less the evicted oldest one, and
\* cells is the successor of the newest entry.  Checked under SpecOrbit.
C36_StepExtendsOrbit ==
    [][/\ (op' \in {"initializePattern", "resetGeneration"}) =>
              IsOrbit(Append(previousGenerations', cells'), ruleToggles')
       /\ (/\ op' = "step"
           /\ IsOrbit(Append(previousGenerations, cells), ruleToggles)) =>
              LET n == Len(previousGenerations')
              IN  /\ n >= 1
                  /\ previousGenerations'[n] = cells
                  /\ cells' = Successor(cells, ruleToggles)
                  /\ SubSeq(previousGenerations', 1, n - 1)
                         \in {previousGenerations, Shift(previousGenerations)}
                  /\ IsOrbit(Append(previousGenerations', cells'),
                             ruleToggles')]_vars

\* two steps of rule 30 from a single live cell in three, with a window of
\* depth 2: [false,true,false], [true,true,true], [false,false,false]
C36_Witness ==
    /\ op = "step" /\ rule = 30 /\ generation = 2
    /\ previousGenerations = <<<<FALSE, TRUE, FALSE>>, <<TRUE, TRUE, TRUE>>>>
    /\ cells = <<FALSE, FALSE, FALSE>>

\* C37: the derived cell count and render margin are never negative, and
\* initializePattern(pattern) leaves a Generation of length exactly maxCells
\* with the pattern's shape: 'single' one live cell at floor(maxCells / 2),
\* 'filled' all live, 'empty' all dead, 'alternating' live exactly at the even
\* indices.  Checked under SpecAppend.
C37_PatternFillsViewport ==
    /\ maxCells >= 0
    /\ renderMargin >= 0
    /\ (op = "initializePattern") =>
           /\ Len(cells) = maxCells
           /\ (lastInitPattern = "single") =>
                  LiveIndices(cells) = {maxCells \div 2}
           /\ (lastInitPattern = "filled") =>
                  LiveIndices(cells) = 0..(Len(cells) - 1)
           /\ (lastInitPattern = "empty") => LiveIndices(cells) = {}
           /\ (lastInitPattern = "alternating") =>
                  LiveIndices(cells) = {x \in 0..(Len(cells) - 1) : x % 2 = 0}

\* C38: growing a Generation g of length N to N + d cells and shrinking it
\* back to N cells, by two updateCanvasSize calls, yields g again: whenever
\* the cells left by an updateCanvasSize are g grown to the current length,
\* an updateCanvasSize back to the length of g leaves exactly g.  Checked
\* under SpecView.
C38_GrowThenShrinkRestores ==
    [][\A g \in BoolArrays(maxCells') :
           (/\ op = "updateCanvasSize" /\ op' = "updateCanvasSize"
            /\ maxCells' <= Len(cells)
            /\ cells = Recentre(g, Len(cells))) => cells' = g]_vars

====
